---- MODULE Spec2Model ----
(***************************************************************************)
(* Model of the zora-dash frontend: the tab selector and the               *)
(* fetch-on-view-change effect of App (src/frontend/src/App.jsx) and the   *)
(* request layer (src/frontend/src/api/client.js).                         *)
(***************************************************************************)
EXTENDS Integers, Sequences, FiniteSets, TLC

VARIABLES
    activeTab,   \* App: useState('overview')
    loading,     \* App: useState(true)
    data,        \* App: useState({})
    error,       \* App: useState(null)
    fetches,     \* one record per fetchJson call, in call order
    network,     \* the URLs handed to fetch(), in order (outbound requests)
    conn,        \* live alert channel: connection state
    buffer,      \* live alert channel: LiveAlertBuffer, newest first
    snapshot,    \* live alert channel: last whales snapshot list
    delivered,   \* live alert channel: events pushed in this session
    focus,       \* TabNav: the tab button that holds the keyboard focus
    lastEvent,   \* TabNav: the last click or key press handled
    fn,          \* formatters: the function last applied
    arg,         \* formatters: its argument
    out          \* formatters: the string it returned

appVars == <<activeTab, loading, data, error, fetches, network>>
liveVars == <<conn, buffer, snapshot, delivered>>
navVars == <<focus, lastEvent>>
fmtVars == <<fn, arg, out>>
vars == <<activeTab, loading, data, error, fetches, network,
          conn, buffer, snapshot, delivered, focus, lastEvent, fn, arg, out>>

\* Number of fetchJson calls a run may make (the code has no such limit).
MaxFetches == 3

----------------------------------------------------------------------------
(* api/client.js *)

API_URL == ""

\* The HTTP statuses the remote API answers with in the model.
Statuses == {200, 404, 500}

\* Response.ok with the range check lost: every response counts as a success.
ResOkAny(status) == TRUE

\* Response.ok
ResOk(status) == status >= 200 /\ status <= 299

getOverview == API_URL \o "/api/overview"
getTopGainers(count) == API_URL \o "/api/coins/gainers?count=" \o ToString(count)
getTopVolume(count) == API_URL \o "/api/coins/volume?count=" \o ToString(count)
getMostValuable(count) == API_URL \o "/api/coins/valuable?count=" \o ToString(count)
getNewCoins(count) == API_URL \o "/api/coins/new?count=" \o ToString(count)
getActiveCoins(count) == API_URL \o "/api/coins/active?count=" \o ToString(count)
getTopics == API_URL \o "/api/topics"
getCreators(count) == API_URL \o "/api/creators?count=" \o ToString(count)
getTraders(count) == API_URL \o "/api/traders?count=" \o ToString(count)
getWhales(minUsd) == API_URL \o "/api/whales?min_usd=" \o ToString(minUsd)

\* What a fetchJson call has settled with so far.
Pending == [tag |-> "pending", msg |-> "", body |-> 0]
Returned(b) == [tag |-> "return", msg |-> "", body |-> b]
Thrown(m) == [tag |-> "throw", msg |-> m, body |-> 0]

\* fetch(url) rejected: no response at all.
TransportError == Thrown("TypeError: Failed to fetch")
\* throw new Error(`API error: ${res.status}`)
StatusError(status) == Thrown("API error: " \o ToString(status))
\* res.json() rejected: the body is not JSON.
ParseError == Thrown("SyntaxError: Unexpected token")

----------------------------------------------------------------------------
(* App.jsx *)

TABS == << [id |-> "overview", label |-> "Overview"],
           [id |-> "gainers", label |-> "Top Gainers"],
           [id |-> "volume", label |-> "Top Volume"],
           [id |-> "valuable", label |-> "Most Valuable"],
           [id |-> "new", label |-> "New Coins"],
           [id |-> "traders", label |-> "Traders"] >>

TabIds == {TABS[i].id : i \in DOMAIN TABS}

\* TABS.findIndex(t => t.id === tabId), 1-based
FindIndex(tabId) == CHOOSE i \in DOMAIN TABS : TABS[i].id = tabId

Null == "null"
EmptyData == [key |-> "none", body |-> 0]

\* The branch fetchData takes for a tab: the key it stores the result under
\* and the URL of the api call it awaits; no branch, no call.
FetchBranch(tab) ==
    IF tab = "overview" THEN [key |-> "overview", url |-> getOverview]
    ELSE IF tab = "gainers" THEN [key |-> "coins", url |-> getTopGainers(50)]
    ELSE IF tab = "volume" THEN [key |-> "coins", url |-> getTopVolume(50)]
    ELSE IF tab = "valuable" THEN [key |-> "coins", url |-> getMostValuable(50)]
    ELSE IF tab = "new" THEN [key |-> "coins", url |-> getNewCoins(50)]
    ELSE IF tab = "traders" THEN [key |-> "traders", url |-> getTraders(100)]
    ELSE [key |-> "none", url |-> "none"]

\* The record of one fetchJson(url) call made by fetchData for `tab`.
NewFetch(tab) ==
    [tab |-> tab, key |-> FetchBranch(tab).key, url |-> FetchBranch(tab).url,
     stage |-> "fetch", status |-> 0, result |-> Pending]

\* fetchJson(url): const res = await fetch(url) -- one outbound request.
FetchJsonCall(tab) ==
    /\ fetches' = Append(fetches, NewFetch(tab))
    /\ network' = Append(network, FetchBranch(tab).url)

\* fetchData with a response cache: a tab whose fetch returned before gets
\* that response again and no request is made.
FetchDataCached(tab) ==
    /\ error' = Null
    /\ IF \E i \in DOMAIN fetches :
              fetches[i].tab = tab /\ fetches[i].result.tag = "return"
          THEN /\ loading' = FALSE
               /\ data' = [key |-> FetchBranch(tab).key,
                           body |-> CHOOSE i \in DOMAIN fetches :
                               fetches[i].tab = tab /\ fetches[i].result.tag = "return"]
               /\ UNCHANGED <<fetches, network>>
          ELSE /\ loading' = TRUE
               /\ FetchJsonCall(tab)
               /\ UNCHANGED data

\* The effect of [activeTab]: fetchData() up to its await.
FetchData(tab) ==
    /\ error' = Null
    /\ IF FetchBranch(tab).url = "none"
          THEN /\ loading' = FALSE
               /\ UNCHANGED <<fetches, network>>
          ELSE /\ loading' = TRUE
               /\ FetchJsonCall(tab)
    /\ UNCHANGED data

\* onChange whose effect runs on every call, the value set being new or not.
OnChangeAlways(id) ==
    /\ activeTab' = id
    /\ FetchData(id)

\* setActiveTab(id), the re-render and the effect it triggers, taken as one
\* step: no promise callback runs between the state update and the
\* synchronous part of fetchData.  Setting the value the state already has
\* triggers nothing.
OnChange(id) ==
    IF id = activeTab
       THEN UNCHANGED appVars
       ELSE /\ activeTab' = id
            /\ FetchData(id)

\* onClick={() => onChange(tab.id)}
Click(id) ==
    /\ Len(fetches) < MaxFetches
    /\ OnChange(id)
    /\ UNCHANGED liveVars

Keys == {"ArrowRight", "ArrowLeft", "Home", "End", "Enter"}

\* handleKeyDown(e, tabId) on the tab button tabId; indices are 1-based here.
KeyDown(key, tabId) ==
    /\ Len(fetches) < MaxFetches
    /\ LET currentIndex == FindIndex(tabId) - 1
           n == Len(TABS)
       IN  IF key = "ArrowRight"
              THEN OnChange(TABS[((currentIndex + 1) % n) + 1].id)
           ELSE IF key = "ArrowLeft"
              THEN OnChange(TABS[((currentIndex - 1 + n) % n) + 1].id)
           ELSE IF key = "Home"
              THEN OnChange(TABS[1].id)
           ELSE IF key = "End"
              THEN OnChange(TABS[n].id)
           ELSE UNCHANGED appVars
    /\ UNCHANGED liveVars

\* catch (e) { setError(e.message) }: the cause shown to the user.
CatchMessageRaw(e) == e.msg

\* catch (e) { setError(...) }
CatchMessage(e) == "Failed to load data. Please try again."

\* fetchData with setLoading(false) inside the try block: a failure skips it.
CatchNoSetLoading(i, e) ==
    /\ error' = CatchMessage(e)
    /\ UNCHANGED <<loading, data, activeTab>>

\* fetchData after its await threw: catch, then setLoading(false).
Catch(i, e) ==
    /\ error' = CatchMessage(e)
    /\ loading' = FALSE
    /\ UNCHANGED <<data, activeTab>>

\* fetchData that stores the result only if its tab is still the active one.
SetDataIfCurrent(i, value) ==
    /\ data' = IF fetches[i].tab = activeTab
                  THEN [key |-> fetches[i].key, body |-> value.body]
                  ELSE data
    /\ loading' = FALSE
    /\ UNCHANGED <<error, activeTab>>

\* fetchData that also clears the error when its call returns.
SetDataClearError(i, value) ==
    /\ data' = [key |-> fetches[i].key, body |-> value.body]
    /\ loading' = FALSE
    /\ error' = Null
    /\ UNCHANGED activeTab

\* fetchData after its await returned: setData({ key: value }), then
\* setLoading(false).
SetData(i, value) ==
    /\ data' = [key |-> fetches[i].key, body |-> value.body]
    /\ loading' = FALSE
    /\ UNCHANGED <<error, activeTab>>

\* fetch(url) settles for call i: rejected (status 0) or a response.
FetchSettles(i, status) ==
    /\ fetches[i].stage = "fetch"
    /\ IF status = 0
          THEN /\ fetches' = [fetches EXCEPT ![i].stage = "done",
                                             ![i].result = TransportError]
               /\ Catch(i, TransportError)
          ELSE IF ~ResOk(status)
          THEN /\ fetches' = [fetches EXCEPT ![i].stage = "done",
                                             ![i].status = status,
                                             ![i].result = StatusError(status)]
               /\ Catch(i, StatusError(status))
          ELSE /\ fetches' = [fetches EXCEPT ![i].stage = "json",
                                             ![i].status = status]
               /\ UNCHANGED <<activeTab, loading, data, error>>
    /\ UNCHANGED network
    /\ UNCHANGED liveVars

\* res.json() settles for call i: the parsed body, or a parse error.
JsonSettles(i, wellFormed) ==
    /\ fetches[i].stage = "json"
    /\ IF wellFormed
          THEN /\ fetches' = [fetches EXCEPT ![i].stage = "done",
                                             ![i].result = Returned(i)]
               /\ SetData(i, Returned(i))
          ELSE /\ fetches' = [fetches EXCEPT ![i].stage = "done",
                                             ![i].result = ParseError]
               /\ Catch(i, ParseError)
    /\ UNCHANGED network
    /\ UNCHANGED liveVars

LiveIdle ==
    /\ conn = "inactive"
    /\ buffer = << >>
    /\ snapshot = << >>
    /\ delivered = {}

\* No key or click handled yet, the focus outside the tab list.
NoEvent == [type |-> "none", key |-> "", tab |-> "", before |-> ""]

NavIdle ==
    /\ focus = "none"
    /\ lastEvent = NoEvent

\* No formatter applied yet.
NoArg == [kind |-> "none", num |-> 0, den |-> 1, now |-> 0, url |-> ""]

FmtIdle ==
    /\ fn = "none"
    /\ arg = NoArg
    /\ out = ""

\* After mount: the initial render and the first run of the effect.
Init ==
    /\ activeTab = "overview"
    /\ loading = TRUE
    /\ data = EmptyData
    /\ error = Null
    /\ fetches = << NewFetch("overview") >>
    /\ network = << FetchBranch("overview").url >>
    /\ LiveIdle
    /\ NavIdle
    /\ FmtIdle

\* A fetch call settles: fetch(url) or res.json().
Settle ==
    \/ \E i \in DOMAIN fetches : \E s \in Statuses \cup {0} : FetchSettles(i, s)
    \/ \E i \in DOMAIN fetches : \E w \in BOOLEAN : JsonSettles(i, w)

Next ==
    \/ \E id \in TabIds : Click(id) /\ UNCHANGED <<navVars, fmtVars>>
    \/ \E key \in Keys : \E tabId \in TabIds :
          KeyDown(key, tabId) /\ UNCHANGED <<navVars, fmtVars>>
    \/ \E i \in DOMAIN fetches : \E s \in Statuses \cup {0} :
          FetchSettles(i, s) /\ UNCHANGED <<navVars, fmtVars>>
    \/ \E i \in DOMAIN fetches : \E w \in BOOLEAN :
          JsonSettles(i, w) /\ UNCHANGED <<navVars, fmtVars>>

Spec == Init /\ [][Next]_vars

\* Every request that was issued is answered in the end.
SpecFair ==
    /\ Init
    /\ [][Next]_vars
    /\ WF_vars(Settle /\ UNCHANGED <<navVars, fmtVars>>)

----------------------------------------------------------------------------
(* Properties of the fetch cycle *)

\* The call made for the view that is active now: every view change makes
\* one, so it is the last one.
Latest == Len(fetches)

AllSettled == \A i \in DOMAIN fetches : fetches[i].stage = "done"

ErrorText == "Failed to load data. Please try again."

\* C1: once every in-flight fetch has resolved, (data, loading, error) is
\* what the resolution of the active view's own fetch produced: its payload
\* and no error if it returned, the error message if it failed; never the
\* outcome of a fetch issued for a view that was left.
C1_CommittedIsLatest ==
    AllSettled =>
        /\ ~loading
        /\ IF fetches[Latest].result.tag = "return"
              THEN /\ data = [key |-> fetches[Latest].key, body |-> Latest]
                   /\ error = Null
              ELSE error = ErrorText

\* C2: an error is shown only for a failure of the active view's own fetch:
\* the failure of a fetch issued for a view that was left sets no error.
C2_StaleFailureDiscarded ==
    error # Null => fetches[Latest].result.tag = "throw"

\* The panel branch App renders: error first, then loading, then the data.
Panel ==
    IF error # Null THEN "error"
    ELSE IF loading THEN "loading"
    ELSE "data"

\* C3: whenever the panel shows data for the active view, the payload it
\* reads (data[key of the view]) was returned by a fetch issued for that
\* view.
C3_RenderedPayloadIsOwn ==
    (Panel = "data" /\ data.key = FetchBranch(activeTab).key)
        => fetches[data.body].tab = activeTab

\* C4: while the fetch issued for the active view is unresolved, loading is
\* true and error is null, whatever other fetches resolve meanwhile.
C4_LoadingUntilOwnResolution ==
    fetches[Latest].result.tag = "pending" => (loading /\ error = Null)

\* C5: every change of the active view, a return to an earlier view
\* included, sends exactly one new request, to the new view's endpoint.
C5_OneRequestPerChange ==
    [][activeTab' # activeTab =>
          /\ Len(network') = Len(network) + 1
          /\ network'[Len(network')] = FetchBranch(activeTab').url
          /\ FetchBranch(activeTab').url # "none"]_vars

\* A -> B -> A has happened and the second visit of A made its own request.
C5_Witness ==
    /\ Len(network) = 3
    /\ fetches[1].tab = fetches[3].tab
    /\ fetches[1].tab # fetches[2].tab
    /\ fetches[1].result.tag = "return"
    /\ network[3] = network[1]

\* The step in which the active view's own fetch returns / throws.
OwnReturns ==
    /\ Len(fetches') = Len(fetches)
    /\ fetches[Latest].result.tag = "pending"
    /\ fetches'[Latest].result.tag = "return"

OwnThrows ==
    /\ Len(fetches') = Len(fetches)
    /\ fetches[Latest].result.tag = "pending"
    /\ fetches'[Latest].result.tag = "throw"

\* C6: when the active view's own fetch resolves successfully the state is
\* success: loading false, error null, data the parsed result of that fetch.
C6_SuccessState ==
    [][OwnReturns =>
          /\ loading' = FALSE
          /\ error' = Null
          /\ data' = [key |-> FetchBranch(activeTab).key, body |-> Latest]]_vars

\* C7: when the active view's own fetch fails, by a transport error, a
\* non-2xx status or a body that is not JSON, the state is error: loading
\* false and error the one constant message, the same for every cause.
C7_FailureState ==
    [][OwnThrows => (loading' = FALSE /\ error' = ErrorText)]_vars

\* The active view's fetch failed on a malformed body after two earlier
\* cycles failed on transport and on status; the message is the same.
C7_Witness ==
    /\ Len(fetches) = 3
    /\ fetches[1].result = TransportError
    /\ fetches[2].result = StatusError(500)
    /\ fetches[3].result = ParseError
    /\ error = ErrorText
    /\ ~loading

\* The ten views of the data model, and the query of the views that the
\* fetch cycle has to ask for by a fixed parameter.
Views == {"overview", "topics", "gainers", "volume", "valuable", "new",
          "active", "creators", "traders", "whales"}

\* C8: the active view is one of the ten views, each of the ten can be
\* made active (it is a tab), and making it active requests its own query,
\* whales with min_usd = 1000.
C8_TenViews ==
    /\ activeTab \in Views
    /\ network[Latest] = FetchBranch(activeTab).url
    /\ \A v \in Views : v \in TabIds /\ FetchBranch(v).url # "none"
    /\ FetchBranch("whales").url = getWhales(1000)

\* C9 as amended: one outbound request per fetchJson call, none added when
\* it settles; a value is returned only for a 2xx response and is its parsed
\* body; a non-2xx response fails with the error carrying the status, no
\* response with the transport failure, a 2xx body that is not JSON with the
\* parse error.
C9_FetchJsonOutcome ==
    /\ Len(network) = Len(fetches)
    /\ \A i \in DOMAIN fetches :
          LET f == fetches[i] IN
          /\ network[i] = f.url
          /\ f.result.tag = "return" =>
                (f.status \in 200..299 /\ f.result = Returned(i))
          /\ f.stage = "done" =>
                \/ f.status \in 200..299 /\ f.result \in {Returned(i), ParseError}
                \/ /\ f.status \notin 200..299
                   /\ f.status # 0
                   /\ f.result = Thrown("API error: " \o ToString(f.status))
                \/ f.status = 0 /\ f.result = TransportError

\* C9 as stated: every settled call returned the body of a 2xx response or
\* failed with the status of a non-2xx response or with a transport failure.
C9_AsStated ==
    \A i \in DOMAIN fetches :
        LET f == fetches[i] IN
        f.stage = "done" =>
            \/ f.status \in 200..299 /\ f.result = Returned(i)
            \/ /\ f.status \notin 200..299
               /\ f.status # 0
               /\ f.result = Thrown("API error: " \o ToString(f.status))
            \/ f.status = 0 /\ f.result = TransportError

\* One call got a 404 and threw its status, one got no response, one got a
\* 200 and returned the body.
C9_Witness ==
    /\ Len(fetches) = 3
    /\ fetches[1].status = 404 /\ fetches[1].result = StatusError(404)
    /\ fetches[2].status = 0 /\ fetches[2].result = TransportError
    /\ fetches[3].status = 200 /\ fetches[3].result = Returned(3)
    /\ Len(network) = 3

----------------------------------------------------------------------------
(* Live alert channel of the whales view.  App.jsx has no whales tab and   *)
(* opens no connection; client.js only offers getWhales and getWhaleWsUrl. *)
(* This part follows the design document, sections 3 and 4.3.  The channel *)
(* delivers each trade once and a snapshot lists each trade once           *)
(* (transactionHash is the unique key of an AlertEvent).                   *)

\* Cap of the LiveAlertBuffer and of the merged display list.
CapBuffer == 20
CapDisplay == 50

\* Events pushed in one run, and how far into the stream two neighbouring
\* events may still arrive in either order.
MaxPush == 21
Reorder == 3

\* Lengths of the snapshot lists the API answers with.
SnapLens == {0, 3, 33}

Min(a, b) == IF a < b THEN a ELSE b

Take(n, s) == SubSeq(s, 1, Min(n, Len(s)))

\* An AlertEvent; two are the same trade iff their transactionHash is equal.
\* origin tells the pushed copy from the snapshot's copy of a trade.
AlertEvent(h, o) == [transactionHash |-> h, origin |-> o]

Hashes(s) == {s[i].transactionHash : i \in DOMAIN s}

\* The whales snapshot of `len` trades ending with trade `hi`, newest first.
SnapshotList(hi, len) == [i \in 1..len |-> AlertEvent(hi - i + 1, "snapshot")]

\* The merge with the duplicates kept: the buffer followed by the snapshot.
MergedNoDedup(buf, snap) == Take(CapDisplay, buf \o snap)

\* Merge rule: the buffer, then the snapshot entries whose transactionHash
\* is not in the buffer, cut to the display cap.
Merged(buf, snap) ==
    Take(CapDisplay,
         buf \o SelectSeq(snap, LAMBDA e : e.transactionHash \notin Hashes(buf)))

\* The list the whales view displays.
DisplayList == Merged(buffer, snapshot)

\* inactive -> connecting: the view becomes whales; the buffer starts empty
\* and the snapshot is requested.
EnterWhales ==
    /\ conn = "inactive"
    /\ conn' = "connecting"
    /\ buffer' = << >>
    /\ snapshot' = << >>
    /\ UNCHANGED delivered
    /\ UNCHANGED appVars

\* The next trade not yet pushed.
NextTrade == CHOOSE h \in 1..(MaxPush + 1) : h \notin delivered /\
                 \A g \in 1..(h - 1) : g \in delivered

\* The push handler without the truncation: the buffer only grows.
PushNoCap(h) ==
    /\ conn \in {"connecting", "active"}
    /\ h \notin delivered
    /\ h <= MaxPush
    /\ h = NextTrade \/ (h = NextTrade + 1 /\ h <= Reorder)
    /\ conn' = "active"
    /\ buffer' = << AlertEvent(h, "push") >> \o buffer
    /\ delivered' = delivered \cup {h}
    /\ UNCHANGED snapshot
    /\ UNCHANGED appVars

\* connecting/active -> active: an AlertEvent is received, prepended and the
\* buffer cut to its cap.
Push(h) ==
    /\ conn \in {"connecting", "active"}
    /\ h \notin delivered
    /\ h <= MaxPush
    /\ h = NextTrade \/ (h = NextTrade + 1 /\ h <= Reorder)
    /\ conn' = "active"
    /\ buffer' = Take(CapBuffer, << AlertEvent(h, "push") >> \o buffer)
    /\ delivered' = delivered \cup {h}
    /\ UNCHANGED snapshot
    /\ UNCHANGED appVars

\* The whales snapshot fetch resolves while the view is whales.
SnapshotArrives(hi, len) ==
    /\ conn # "inactive"
    /\ snapshot' = SnapshotList(hi, len)
    /\ UNCHANGED <<conn, buffer, delivered>>
    /\ UNCHANGED appVars

\* The connection cannot be established or errors; no retry.
ConnError ==
    /\ conn \in {"connecting", "active"}
    /\ conn' = "closed-with-error"
    /\ UNCHANGED <<buffer, snapshot, delivered>>
    /\ UNCHANGED appVars

\* Leaving the whales view with the buffer kept for the next visit.
LeaveWhalesKeep ==
    /\ conn # "inactive"
    /\ conn' = "inactive"
    /\ snapshot' = << >>
    /\ UNCHANGED <<buffer, delivered>>
    /\ UNCHANGED appVars

\* * -> inactive: the view changes away from whales; the connection is
\* closed and the buffer cleared.
LeaveWhales ==
    /\ conn # "inactive"
    /\ conn' = "inactive"
    /\ buffer' = << >>
    /\ snapshot' = << >>
    /\ UNCHANGED delivered
    /\ UNCHANGED appVars

NextLive ==
    \/ EnterWhales /\ UNCHANGED <<navVars, fmtVars>>
    \/ \E h \in 1..MaxPush : Push(h) /\ UNCHANGED <<navVars, fmtVars>>
    \/ \E hi \in 0..MaxPush : \E len \in SnapLens :
          SnapshotArrives(hi, len) /\ UNCHANGED <<navVars, fmtVars>>
    \/ ConnError /\ UNCHANGED <<navVars, fmtVars>>
    \/ LeaveWhales /\ UNCHANGED <<navVars, fmtVars>>

SpecLive == Init /\ [][NextLive]_vars

\* The snapshot entries whose trade is not in the buffer, in snapshot order.
RECURSIVE SnapshotOnly(_, _)
SnapshotOnly(buf, snap) ==
    IF snap = << >> THEN << >>
    ELSE IF \E i \in DOMAIN buf : buf[i].transactionHash = snap[1].transactionHash
         THEN SnapshotOnly(buf, Tail(snap))
         ELSE << snap[1] >> \o SnapshotOnly(buf, Tail(snap))

\* C10: while the whales view is active, a trade that is in the buffer and
\* in the snapshot occurs exactly once in the displayed list, as its pushed
\* copy; every pushed entry precedes every snapshot entry; and the list is
\* the first 50 of the buffer followed by the snapshot without the buffer's
\* trades, in whatever order snapshot and events arrived.
C10_MergedDedup ==
    conn # "inactive" =>
        LET m == DisplayList
            rest == SnapshotOnly(buffer, snapshot)
        IN  /\ \A h \in Hashes(buffer) \cap Hashes(snapshot) :
                  /\ Cardinality({i \in DOMAIN m : m[i].transactionHash = h}) = 1
                  /\ \A i \in DOMAIN m :
                        m[i].transactionHash = h => m[i].origin = "push"
            /\ \A i, j \in DOMAIN m :
                  (m[i].origin = "push" /\ m[j].origin = "snapshot") => i < j
            /\ Len(m) = Min(50, Len(buffer) + Len(rest))
            /\ \A i \in DOMAIN m :
                  m[i] = IF i <= Len(buffer) THEN buffer[i]
                         ELSE rest[i - Len(buffer)]

\* Events arrived out of order, the snapshot repeats trades of the buffer
\* and brings others, and the display cap cuts the list.
C10_Witness ==
    /\ conn = "active"
    /\ \E i \in 1..(Len(buffer) - 1) :
          buffer[i].transactionHash < buffer[i + 1].transactionHash
    /\ Cardinality(Hashes(buffer) \cap Hashes(snapshot)) >= 2
    /\ Len(SnapshotOnly(buffer, snapshot)) + Len(buffer) > 50
    /\ Len(DisplayList) = 50

\* C11: after any sequence of pushed events the buffer holds at most 20
\* events, newest first (an arriving event becomes the head and the events
\* behind it keep their order, the oldest falling off), and the displayed
\* list holds at most 50 entries.
C11_Caps ==
    /\ [](Len(buffer) <= 20 /\ Len(DisplayList) <= 50)
    /\ [][delivered' # delivered =>
             /\ Len(buffer') >= 1
             /\ delivered' = delivered \cup {buffer'[1].transactionHash}
             /\ buffer'[1].transactionHash \notin delivered
             /\ \A i \in 2..Len(buffer') : buffer'[i] = buffer[i - 1]
             /\ Len(buffer') = IF Len(buffer) < 20 THEN Len(buffer) + 1 ELSE 20]_vars

\* The 21st event has arrived, the buffer is full and the display list cut.
C11_Witness ==
    /\ Cardinality(delivered) = 21
    /\ Len(buffer) = 20
    /\ buffer[1].transactionHash = 21
    /\ Len(buffer) + Len(SnapshotOnly(buffer, snapshot)) > 50
    /\ Len(DisplayList) = 50

\* C12: whenever the view changes away from whales the connection is closed
\* and the buffer emptied; after re-entering whales the buffer is empty until
\* a new event arrives, also when it held 20 events before leaving.
C12_Reset ==
    /\ [](conn \in {"inactive", "connecting"} => buffer = << >>)
    /\ [][(conn # "inactive" /\ conn' = "inactive") => buffer' = << >>]_vars
    /\ [][(conn = "inactive" /\ conn' # "inactive") =>
             (conn' = "connecting" /\ buffer' = << >>)]_vars

\* The whales view was left with a full buffer and has been entered again;
\* no event has arrived since.
C12_Witness ==
    /\ conn = "connecting"
    /\ Cardinality(delivered) >= 20
    /\ buffer = << >>

----------------------------------------------------------------------------
(* Formatters (App.jsx) and getWhaleWsUrl (client.js) *)

\* A JavaScript number num/den: a whole number (den = 1) or a number of
\* millionths (den = 1000000); null and undefined are the other arguments.
Num(num, den) == [kind |-> "num", num |-> num, den |-> den, now |-> 0, url |-> ""]
NullArg == [kind |-> "null", num |-> 0, den |-> 1, now |-> 0, url |-> ""]
UndefinedArg == [kind |-> "undefined", num |-> 0, den |-> 1, now |-> 0, url |-> ""]

\* Math.abs
Abs(x) == [x EXCEPT !.num = IF x.num < 0 THEN 0 - x.num ELSE x.num]

\* n >= c for a whole constant c
GeqInt(x, c) == IF x.den = 1 THEN x.num >= c ELSE (x.num \div x.den) >= c

\* n >= 0.01
GeqHundredth(x) ==
    IF x.num <= 0 THEN FALSE
    ELSE IF x.den = 1 THEN TRUE
    ELSE x.num >= x.den \div 100

RECURSIVE Pow10(_)
Pow10(k) == IF k = 0 THEN 1 ELSE 10 * Pow10(k - 1)

\* The decimal digits of n, with leading zeros up to `width` digits.
RECURSIVE Pad(_, _)
Pad(n, width) ==
    IF width = 0 THEN ""
    ELSE Pad(n \div 10, width - 1) \o ToString(n % 10)

\* a / b rounded to the nearest whole number, a tie going up (a >= 0, b > 0).
RoundDiv(a, b) == (a \div b) + (IF 2 * (a % b) >= b THEN 1 ELSE 0)

\* (x / divisor).toFixed(d): "-" for a negative number, then the magnitude
\* rounded to d decimals.  The value is taken as the exact decimal; the
\* arguments of the model have no digit pattern whose nearest double rounds
\* the other way.
ToFixed(x, divisor, d) ==
    LET mag == IF x.num < 0 THEN 0 - x.num ELSE x.num
        below == x.den * divisor
        scaled == IF below >= Pow10(d)
                     THEN RoundDiv(mag, below \div Pow10(d))
                     ELSE mag * (Pow10(d) \div below)
    IN  (IF x.num < 0 THEN "-" ELSE "")
        \o ToString(scaled \div Pow10(d))
        \o (IF d = 0 THEN "" ELSE "." \o Pad(scaled % Pow10(d), d))

\* The placeholder glyph, the em dash U+2014, written here in ASCII.
Placeholder == "--"

\* formatNumber with the million threshold exclusive (n > 1e6).
formatNumberExclusive(n) ==
    IF n.kind \in {"null", "undefined"} THEN Placeholder
    ELSE IF GeqInt(n, 1000000000) THEN "$" \o ToFixed(n, 1000000000, 2) \o "B"
    ELSE IF GeqInt(n, 1000000) /\ n # Num(1000000, 1)
         THEN "$" \o ToFixed(n, 1000000, 1) \o "M"
    ELSE IF GeqInt(n, 1000) THEN "$" \o ToFixed(n, 1000, 1) \o "K"
    ELSE IF GeqInt(n, 1) THEN "$" \o ToFixed(n, 1, 2)
    ELSE IF GeqHundredth(n) THEN "$" \o ToFixed(n, 1, 4)
    ELSE "$" \o ToFixed(n, 1, 6)

formatNumber(n) ==
    IF n.kind \in {"null", "undefined"} THEN Placeholder
    ELSE IF GeqInt(n, 1000000000) THEN "$" \o ToFixed(n, 1000000000, 2) \o "B"
    ELSE IF GeqInt(n, 1000000) THEN "$" \o ToFixed(n, 1000000, 1) \o "M"
    ELSE IF GeqInt(n, 1000) THEN "$" \o ToFixed(n, 1000, 1) \o "K"
    ELSE IF GeqInt(n, 1) THEN "$" \o ToFixed(n, 1, 2)
    ELSE IF GeqHundredth(n) THEN "$" \o ToFixed(n, 1, 4)
    ELSE "$" \o ToFixed(n, 1, 6)

formatChange(n) ==
    IF n.kind \in {"null", "undefined"} THEN Placeholder
    ELSE LET sign == IF n.num >= 0 THEN "+" ELSE ""
         IN  IF GeqInt(Abs(n), 1000000)
                THEN sign \o "$" \o ToFixed(n, 1000000, 1) \o "M"
             ELSE IF GeqInt(Abs(n), 1000)
                THEN sign \o "$" \o ToFixed(n, 1000, 1) \o "K"
             ELSE sign \o "$" \o ToFixed(n, 1, 0)

\* A timestamp argument of timeAgo (milliseconds on the model's clock) and
\* the clock reading of new Date(); null, undefined and '' are the others.
DateArg(ms, now) == [kind |-> "date", num |-> ms, den |-> 1, now |-> now, url |-> ""]
EmptyArg(now) == [kind |-> "empty", num |-> 0, den |-> 1, now |-> now, url |-> ""]

\* timeAgo with Math.round in place of Math.floor.
timeAgoRound(d) ==
    IF d.kind \in {"null", "undefined", "empty"} THEN ""
    ELSE LET diffMs == d.now - d.num
         IN  IF diffMs < 60000 THEN "just now"
             ELSE IF diffMs < 3600000
                THEN ToString(RoundDiv(diffMs, 60000)) \o "m ago"
             ELSE IF diffMs < 86400000
                THEN ToString(RoundDiv(diffMs, 3600000)) \o "h ago"
             ELSE ToString(RoundDiv(diffMs, 86400000)) \o "d ago"

\* timeAgo(dateStr), with diff = (now - date) / 1000 kept in milliseconds.
timeAgo(d) ==
    IF d.kind \in {"null", "undefined", "empty"} THEN ""
    ELSE LET diffMs == d.now - d.num
         IN  IF diffMs < 60000 THEN "just now"
             ELSE IF diffMs < 3600000
                THEN ToString(diffMs \div 60000) \o "m ago"
             ELSE IF diffMs < 86400000
                THEN ToString(diffMs \div 3600000) \o "h ago"
             ELSE ToString(diffMs \div 86400000) \o "d ago"

\* The arguments the formatters are applied to.
NumberArgs ==
    {NullArg, UndefinedArg}
    \cup {Num(k, 1) : k \in {0, 1, 5, 42, 999, 1000, 1234, 1250, 1500, 999900,
                             999999, 1000000, 2500000, 12300000, 999999999,
                             1000000000, 1500000000, 2000000000, -5, -1000}}
    \cup {Num(k, 1000000) : k \in {1, 1000, 9900, 9999, 10000, 12345, 123456,
                                   500000, 999999, 1000000, 1500000, 12345678,
                                   999990000, -1000}}

ChangeArgs ==
    {NullArg, UndefinedArg}
    \cup {Num(k, 1) : k \in {0, 1, 500, -500, 999, -999, 1000, -1000, 1500,
                             -1500, 1250, -2500, 999999, -999999, 1000000,
                             -1000000, 2500000, -2500000, 12345678, -12345678}}
    \cup {Num(k, 1000000) : k \in {400000, -400000, 600000, -600000,
                                   999600000, 1000400000}}

Clock == {1000000000, 1000000500}

Elapsed == {-5000, 0, 1, 59999, 60000, 60001, 90000, 119999, 120000,
            3599999, 3600000, 5400000, 7199999, 86399999, 86400000,
            129600000, 172800000, 259200000}

DateArgs ==
    {NullArg, UndefinedArg}
    \cup {EmptyArg(now) : now \in Clock}
    \cup {DateArg(now - e, now) : now \in Clock, e \in Elapsed}

\* A URL as its characters.
Https == << "h", "t", "t", "p", "s", ":", "/", "/" >>
Http == << "h", "t", "t", "p", ":", "/", "/" >>
Wss == << "w", "s", "s", ":", "/", "/" >>
Ws == << "w", "s", ":", "/", "/" >>
WsPath == << "/", "w", "s", "/", "w", "h", "a", "l", "e", "s" >>

Hosts == { << "a", ".", "i", "o" >>,
           << "a", "p", "i", ".", "z", ".", "c", "o", ":", "8", "4", "4", "3" >>,
           << "l", "o", "c", "a", "l", "h", "o", "s", "t", ":", "8", "0", "0", "0" >>,
           << "h", "t", "t", "p", ".", "i", "o" >>,
           << "a", ".", "i", "o", "/", "v", "1" >> }

\* The values of VITE_API_URL: unset, or scheme and host.
BaseUrls == { << >> } \cup {sch \o h : sch \in {Https, Http}, h \in Hosts}

RECURSIVE Join(_)
Join(cs) == IF cs = << >> THEN "" ELSE cs[1] \o Join(Tail(cs))

\* String.prototype.replace(pattern, replacement) with a string pattern: the
\* first occurrence only.
Replace(str, pat, new) ==
    LET hits == {i \in 1..(Len(str) - Len(pat) + 1) :
                    SubSeq(str, i, i + Len(pat) - 1) = pat}
    IN  IF hits = {} THEN str
        ELSE LET i == CHOOSE j \in hits : \A k \in hits : j <= k
             IN  SubSeq(str, 1, i - 1) \o new \o SubSeq(str, i + Len(pat), Len(str))

\* getWhaleWsUrl that maps every base to the insecure scheme.
getWhaleWsUrlInsecure(apiUrl) ==
    Replace(Replace(apiUrl, Https, Ws), Http, Ws) \o WsPath

\* api.getWhaleWsUrl, for the build's API_URL.
getWhaleWsUrl(apiUrl) ==
    Replace(Replace(apiUrl, Https, Wss), Http, Ws) \o WsPath

UrlArg(b) == [kind |-> "url", num |-> 0, den |-> 1, now |-> 0, url |-> Join(b)]

CallFormatNumber(n) ==
    /\ fn' = "formatNumber" /\ arg' = n /\ out' = formatNumber(n)
    /\ UNCHANGED <<appVars, liveVars, navVars>>

CallFormatChange(n) ==
    /\ fn' = "formatChange" /\ arg' = n /\ out' = formatChange(n)
    /\ UNCHANGED <<appVars, liveVars, navVars>>

CallTimeAgo(d) ==
    /\ fn' = "timeAgo" /\ arg' = d /\ out' = timeAgo(d)
    /\ UNCHANGED <<appVars, liveVars, navVars>>

CallGetWhaleWsUrl(b) ==
    /\ fn' = "getWhaleWsUrl" /\ arg' = UrlArg(b) /\ out' = Join(getWhaleWsUrl(b))
    /\ UNCHANGED <<appVars, liveVars, navVars>>

NextFormat ==
    \/ \E n \in NumberArgs : CallFormatNumber(n)
    \/ \E n \in ChangeArgs : CallFormatChange(n)
    \/ \E d \in DateArgs : CallTimeAgo(d)
    \/ \E b \in BaseUrls : CallGetWhaleWsUrl(b)

SpecFormat == Init /\ [][NextFormat]_vars

\* C13: formatChange returns the placeholder for null and undefined and
\* otherwise a string that begins with the sign, '+' for n >= 0 and '-' for
\* n < 0, then the currency symbol, then the magnitude: in millions with
\* suffix M for |n| >= 1e6, in thousands with suffix K for |n| >= 1e3 (one
\* decimal, as formatNumber scales), with 0 decimals below 1e3; so
\* formatChange(-500) = "-$500".
C13_SignedDelta ==
    fn = "formatChange" =>
        IF arg.kind \in {"null", "undefined"} THEN out = Placeholder
        ELSE LET sign == IF arg.num >= 0 THEN "+" ELSE "-"
                 mag == Abs(arg)
             IN  /\ out = IF GeqInt(mag, 1000000)
                             THEN sign \o "$" \o ToFixed(mag, 1000000, 1) \o "M"
                          ELSE IF GeqInt(mag, 1000)
                             THEN sign \o "$" \o ToFixed(mag, 1000, 1) \o "K"
                          ELSE sign \o "$" \o ToFixed(mag, 1, 0)
                 /\ arg = Num(-500, 1) => out = "-$500"

\* The form the threshold table of formatNumber gives a number: the first
\* row whose threshold the number reaches.
C14_Rows ==
    << [divisor |-> 1000000000, decimals |-> 2, suffix |-> "B"],
       [divisor |-> 1000000, decimals |-> 1, suffix |-> "M"],
       [divisor |-> 1000, decimals |-> 1, suffix |-> "K"],
       [divisor |-> 1, decimals |-> 2, suffix |-> ""],
       [divisor |-> 1, decimals |-> 4, suffix |-> ""],
       [divisor |-> 1, decimals |-> 6, suffix |-> ""] >>

C14_Reaches(n, row) ==
    IF row <= 3 THEN GeqInt(n, C14_Rows[row].divisor)
    ELSE IF row = 4 THEN GeqInt(n, 1)
    ELSE IF row = 5 THEN GeqHundredth(n)
    ELSE TRUE

\* C14: formatNumber returns the placeholder for null and undefined and
\* otherwise exactly one form, that of the first threshold reached:
\* 1e9 -> /1e9, 2 decimals, B; 1e6 -> /1e6, 1 decimal, M; 1e3 -> /1e3,
\* 1 decimal, K; 1 -> 2 decimals; 0.01 -> 4 decimals; else 6 decimals.
\* 2,500,000 gives "$2.5M" and 0.001 the 6-decimal "$0.001000".
C14_Currency ==
    fn = "formatNumber" =>
        IF arg.kind \in {"null", "undefined"} THEN out = Placeholder
        ELSE LET row == CHOOSE r \in 1..6 :
                            /\ C14_Reaches(arg, r)
                            /\ \A q \in 1..(r - 1) : ~C14_Reaches(arg, q)
                 f == C14_Rows[row]
             IN  /\ out = "$" \o ToFixed(arg, f.divisor, f.decimals) \o f.suffix
                 /\ arg = Num(2500000, 1) => out = "$2.5M"
                 /\ arg = Num(1000, 1000000) => out = "$0.001000"
                 /\ arg = Num(1000000, 1) => out = "$1.0M"
                 /\ arg = Num(999, 1) => out = "$999.00"

\* formatNumber applied to a number on a threshold.
C14_Witness ==
    /\ fn = "formatNumber"
    /\ arg = Num(1000000, 1)
    /\ out = "$1.0M"

\* C15: timeAgo returns '' for an absent timestamp and otherwise, for the
\* elapsed seconds d = now - timestamp: "just now" if d < 60, floor(d/60)
\* "m ago" if d < 3600, floor(d/3600) "h ago" if d < 86400, floor(d/86400)
\* "d ago" otherwise; 90 s in the past gives "1m ago".
C15_RelativeTime ==
    fn = "timeAgo" =>
        IF arg.kind # "date" THEN out = ""
        ELSE LET ms == arg.now - arg.num
                 secs == ms \div 1000
             IN  /\ ms < 60 * 1000 => out = "just now"
                 /\ (ms >= 60 * 1000 /\ ms < 3600 * 1000) =>
                       out = ToString(secs \div 60) \o "m ago"
                 /\ (ms >= 3600 * 1000 /\ ms < 86400 * 1000) =>
                       out = ToString(secs \div 3600) \o "h ago"
                 /\ ms >= 86400 * 1000 =>
                       out = ToString(secs \div 86400) \o "d ago"
                 /\ ms = 90000 => out = "1m ago"

\* timeAgo applied to a timestamp 90 s in the past.
C15_Witness ==
    /\ fn = "timeAgo"
    /\ arg.kind = "date"
    /\ arg.now - arg.num = 90000
    /\ out = "1m ago"

\* C16: for a base URL https://<host> the live-channel URL is
\* wss://<host>/ws/whales and for http://<host> it is ws://<host>/ws/whales:
\* the host is kept, a secure base never gives ws and an insecure one never
\* wss.
C16_WsUrl ==
    fn = "getWhaleWsUrl" =>
        \A h \in Hosts :
            /\ arg.url = Join(Https \o h) => out = Join(Wss \o h \o WsPath)
            /\ arg.url = Join(Http \o h) => out = Join(Ws \o h \o WsPath)

\* getWhaleWsUrl applied to a secure base.
C16_Witness ==
    /\ fn = "getWhaleWsUrl"
    /\ arg.url = "https://api.z.co:8443"
    /\ out = "wss://api.z.co:8443/ws/whales"

----------------------------------------------------------------------------
(* Frame and progress properties of the fetch cycle *)

\* Call i returns / throws in this step.
ReturnsNow(i) ==
    fetches[i].result.tag = "pending" /\ fetches'[i].result.tag = "return"

ThrowsNow(i) ==
    fetches[i].result.tag = "pending" /\ fetches'[i].result.tag = "throw"

\* C17: data is the payload of the fetch that returned last, whichever view
\* it was issued for, and the empty object before any fetch returned: each
\* return replaces data by the object with the one key of that fetch, and
\* nothing else writes data.
C17_DataIsLastSuccess ==
    /\ []((\A i \in DOMAIN fetches : fetches[i].result.tag # "return")
             => data = EmptyData)
    /\ [][/\ \A i \in DOMAIN fetches :
                ReturnsNow(i) =>
                    data' = [key |-> FetchBranch(fetches[i].tab).key, body |-> i]
          /\ (~ \E i \in DOMAIN fetches : ReturnsNow(i)) => data' = data]_vars

\* data holds the payload of a fetch issued for a view that is not the
\* active one.
C17_Witness ==
    /\ data # EmptyData
    /\ fetches[data.body].tab # activeTab
    /\ data.key # FetchBranch(activeTab).key

\* C18: error is written at two points only: null when a view change starts
\* a fetch cycle, the constant message when a fetch fails; a fetch that
\* returns leaves error as it is and a fetch that fails leaves data as it is.
C18_ErrorWrites ==
    [][/\ error' # error =>
             \/ activeTab' # activeTab /\ error' = Null
             \/ (\E i \in DOMAIN fetches : ThrowsNow(i)) /\ error' = ErrorText
       /\ activeTab' # activeTab => error' = Null
       /\ \A i \in DOMAIN fetches :
             /\ ReturnsNow(i) => error' = error
             /\ ThrowsNow(i) => (error' = ErrorText /\ data' = data)]_vars

\* The active view's fetch returned and wrote data while the message of a
\* failed fetch is still set.
C18_Witness ==
    /\ error = ErrorText
    /\ fetches[Latest].result.tag = "return"
    /\ data = [key |-> fetches[Latest].key, body |-> Latest]
    /\ \E i \in DOMAIN fetches : fetches[i].result.tag = "throw"

\* C19: when every issued request resolves and the view stops changing (a
\* run changes it at most MaxFetches - 1 times), loading becomes false and
\* stays false; it is false whenever no request is in flight, it turns true
\* only by a view change, and every resolution, success or failure, ends
\* with loading = false.
C19_LoadingEnds ==
    /\ <>[](~loading)
    /\ [](AllSettled => ~loading)
    /\ [][(~loading /\ loading') => activeTab' # activeTab]_vars
    /\ [][\A i \in DOMAIN fetches :
             (fetches[i].stage # "done" /\ fetches'[i].stage = "done")
                 => loading' = FALSE]_vars

\* Every request has resolved, one of them with a failure and one with a
\* result, and loading is false.
C19_Witness ==
    /\ AllSettled
    /\ ~loading
    /\ \E i \in DOMAIN fetches : fetches[i].result.tag = "throw"
    /\ fetches[Latest].result.tag = "return"

----------------------------------------------------------------------------
(* TabNav with the keyboard focus *)

\* The Tab key moves the focus into the tab list: only the active tab's
\* button has tabIndex 0.
FocusTabList ==
    /\ focus' = activeTab
    /\ lastEvent' = [type |-> "focus", key |-> "", tab |-> activeTab,
                     before |-> activeTab]
    /\ UNCHANGED <<appVars, liveVars, fmtVars>>

\* A click on the button of tab id, which takes the focus.
NavClick(id) ==
    /\ Click(id)
    /\ focus' = id
    /\ lastEvent' = [type |-> "click", key |-> "", tab |-> id,
                     before |-> activeTab]
    /\ UNCHANGED fmtVars

\* A key press goes to the button that holds the focus; handleKeyDown moves
\* no focus.
NavKeyDown(key) ==
    /\ focus # "none"
    /\ KeyDown(key, focus)
    /\ lastEvent' = [type |-> "key", key |-> key, tab |-> focus,
                     before |-> activeTab]
    /\ UNCHANGED <<focus, fmtVars>>

NextNav ==
    \/ FocusTabList
    \/ \E id \in TabIds : NavClick(id)
    \/ \E key \in Keys : NavKeyDown(key)

SpecNav == Init /\ [][NextNav]_vars

\* The tab a key selects when pressed while `tab` is the active one.
C20_Target(key, tab) ==
    LET i == CHOOSE j \in DOMAIN TABS : TABS[j].id = tab
        n == Len(TABS)
    IN  IF key = "ArrowRight" THEN TABS[IF i = n THEN 1 ELSE i + 1].id
        ELSE IF key = "ArrowLeft" THEN TABS[IF i = 1 THEN n ELSE i - 1].id
        ELSE IF key = "Home" THEN TABS[1].id
        ELSE IF key = "End" THEN TABS[n].id
        ELSE tab

\* C20: after any clicks and key presses activeTab is the id of a TABS
\* entry; ArrowRight moves to the next tab and wraps from the last to the
\* first, ArrowLeft to the previous and wraps from the first to the last,
\* Home selects the first, End the last, any other key changes nothing.
C20_KeyNavigation ==
    /\ activeTab \in TabIds
    /\ lastEvent.type = "key" =>
          activeTab = C20_Target(lastEvent.key, lastEvent.before)
    /\ lastEvent.type = "click" => activeTab = lastEvent.tab

----------------------------------------------------------------------------
(* Tab clicks with the requests they start and the resolutions of those *)

NextSelect ==
    \/ \E id \in TabIds : NavClick(id)
    \/ Settle /\ UNCHANGED <<navVars, fmtVars>>

SpecSelect == Init /\ [][NextSelect]_vars

\* The step is a click on the tab that is the active one.
ClickOnActive ==
    /\ lastEvent' # lastEvent
    /\ lastEvent'.type = "click"
    /\ lastEvent'.tab = activeTab

\* C21: the state at mount is activeTab = overview, loading = true, data
\* empty, with the one overview request sent; selecting the tab that is
\* already active sends no request and leaves activeTab, loading, data and
\* error as they are; a request is sent in no step other than a view change.
C21_SameTabNoRequest ==
    /\ activeTab = "overview"
    /\ loading = TRUE
    /\ data = EmptyData
    /\ network = << FetchBranch("overview").url >>
    /\ [][/\ ClickOnActive =>
                 UNCHANGED <<activeTab, loading, data, error, fetches, network>>
          /\ network' # network => activeTab' # activeTab
          /\ fetches' # fetches =>
                 (activeTab' # activeTab \/ Len(fetches') = Len(fetches))]_vars

\* The last click was on the tab that was already active, a tab other than
\* overview; data holds a payload, the message of a failed fetch is set, and
\* only the requests of mount and of the one view change have been sent.
C21_Witness ==
    /\ lastEvent.type = "click"
    /\ lastEvent.tab = lastEvent.before
    /\ activeTab = lastEvent.tab
    /\ activeTab # "overview"
    /\ data # EmptyData
    /\ error = ErrorText
    /\ Len(network) = 2

====
